---- MODULE Spec2Model ----
(***************************************************************************)
(* A model of IndigoServer's data-access layer (src/orm.py): field         *)
(* descriptors and their validation, the ModelMeta registration, the Model *)
(* operations (construction, get, insert, update, delete) against a MySQL  *)
(* table, and the pooled select/execute engine.                            *)
(*                                                                         *)
(* Four specifications share the module's variables:                       *)
(*   SpecField   assignments to the four field descriptors                 *)
(*   SpecMeta    class declarations going through ModelMeta.__init__       *)
(*   SpecOrm     one caller using class Test against its table             *)
(*   SpecEngine  concurrent select/execute calls on the connection pool    *)
(***************************************************************************)
EXTENDS Integers, Sequences, FiniteSets, TLC

VARIABLES
    \* ---- SpecField: an instance of a class with one field of each kind
    holder,      \* field name -> stored value (Unset when never assigned)
    lastSet,     \* the last assignment attempted and how it ended
    \* ---- SpecMeta
    decl,        \* the last class declaration and what it left on the class
    \* ---- SpecOrm
    table,       \* the rows of table `Test`, at most one per primary key value
    counter,     \* next value of the itertools.count(1) held by Test.id
    inst,        \* the caller's variable: an instance of Test, or NoInst
    issued,      \* default ids received by the instances constructed without id
    lastWrite,   \* the insert/update/delete the caller just made, and its outcome
    lastGet,     \* the Model.get the caller just made, and its outcome
    \* ---- SpecEngine
    pool,        \* the global __pool: 0 = name not bound, g = g-th pool created
    closing,     \* pools whose close() was called
    free,        \* pool -> idle connections
    used,        \* pool -> checked-out connections
    call         \* per caller: the select/execute call it is in

fieldVars  == <<holder, lastSet>>
metaVars   == <<decl>>
ormVars    == <<table, counter, inst, issued, lastWrite, lastGet>>
engineVars == <<pool, closing, free, used, call>>
vars == <<holder, lastSet, decl, table, counter, inst, issued,
          lastWrite, lastGet, pool, closing, free, used, call>>

(***************************************************************************)
(* Python values: a runtime type and a payload.  Strings are named by an   *)
(* index (str 1, str 2, ...); float k stands for the non-integral k + 0.5. *)
(***************************************************************************)
PyVal(t, v) == [t |-> t, v |-> v]
PyNone == PyVal("NoneType", 0)
Unset  == PyVal("<unset>", 0)       \* no attribute stored under storage_name

\* isinstance(value, d_type) for the d_types the field classes pass
\* (numbers.Integral, numbers.Rational, str, bool).  float is registered as
\* numbers.Real only; bool is a subclass of int.
IsInstance(value, d_type) ==
    CASE d_type = "numbers.Integral" -> value.t \in {"int", "bool"}
      [] d_type = "numbers.Rational" -> value.t \in {"int", "bool", "Fraction"}
      [] d_type = "str"              -> value.t = "str"
      [] d_type = "bool"             -> value.t = "bool"
      [] OTHER                       -> FALSE

\* The d_type each Field subclass hands to Field.validate.
DType(fieldClass) ==
    CASE fieldClass = "IntegerField" -> "numbers.Integral"
      [] fieldClass = "StringField"  -> "str"
      [] fieldClass = "BooleanField" -> "bool"
      [] fieldClass = "FloatField"   -> "numbers.Rational"

FieldClasses == {"IntegerField", "StringField", "BooleanField", "FloatField"}

\* Field.validate: TRUE when the value is returned, FALSE when TypeError is raised.
validate(fieldClass, value) == IsInstance(value, DType(fieldClass))

\* Field.__set__ on an attribute dictionary d: validate, then setattr.
\* The result is the new dictionary and the error raised ("" for none).
FieldSet(d, name, fieldClass, value) ==
    IF validate(fieldClass, value)
    THEN [d |-> [d EXCEPT ![name] = value], err |-> ""]
    ELSE [d |-> d, err |-> "TypeError"]

\* Field.__get__ on an instance: getattr(instance, storage_name).
FieldGet(d, name) ==
    IF d[name] = Unset THEN [val |-> Unset, err |-> "AttributeError"]
    ELSE [val |-> d[name], err |-> ""]

(***************************************************************************)
(* SpecField                                                               *)
(***************************************************************************)
MaxInt == 1      \* ints 0..MaxInt are assigned
MaxStr == 2      \* strings 1..MaxStr are assigned

HolderFields == [i |-> "IntegerField", f |-> "FloatField",
                 s |-> "StringField",  b |-> "BooleanField"]
HolderNames == DOMAIN HolderFields

AssignValues ==
    {PyVal("int", n) : n \in 0..MaxInt} \cup {PyVal("bool", n) : n \in 0..1}
    \cup {PyVal("float", 1), PyNone} \cup {PyVal("str", n) : n \in 1..MaxStr}

NoSet == [name |-> "", value |-> PyNone, before |-> Unset, err |-> ""]

InitField ==
    /\ holder = [n \in HolderNames |-> Unset]
    /\ lastSet = NoSet

\* setattr(instance, name, value) through the descriptor.
SetAttr(name, value) ==
    LET r == FieldSet(holder, name, HolderFields[name], value) IN
    /\ holder' = r.d
    /\ lastSet' = [name |-> name, value |-> value, before |-> holder[name],
                   err |-> r.err]
    /\ UNCHANGED <<metaVars, ormVars, engineVars>>

NextField == \E name \in HolderNames, value \in AssignValues : SetAttr(name, value)

(***************************************************************************)
(* ModelMeta.__init__ and SpecMeta                                         *)
(***************************************************************************)
MaxAttrs == 2    \* a declared class body holds at most MaxAttrs attributes

NoneName == "<None>"      \* Python's None where a field name is expected

\* A class attribute: a Field (its class, primary_key flag and default), or
\* something that is no Field (cls = "function").  A default is None, a
\* plain constant, or an iterator (itertools.count).
Field(cls, primary_key, default) ==
    [cls |-> cls, primary_key |-> primary_key, default |-> default]
IsField(v) == v.cls \in FieldClasses
IsIterator(default) == default = "count"

\* What the loop of ModelMeta.__init__ has collected so far.
MetaStart == [fields |-> <<>>, primary_key |-> NoneName, default |-> {}, err |-> ""]

\* One iteration of `for k, v in attr_dict.items()`.
MetaStep(st, k, v) ==
    IF ~IsField(v) THEN st
    ELSE IF v.primary_key /\ st.primary_key # NoneName
         THEN [st EXCEPT !.fields = Append(@, k), !.err = "RuntimeError"]
         ELSE [fields |-> Append(st.fields, k),
               primary_key |-> IF v.primary_key THEN k ELSE st.primary_key,
               default |-> IF IsIterator(v.default) THEN st.default \cup {k}
                           ELSE st.default,
               err |-> ""]

RECURSIVE MetaLoop(_, _, _)
MetaLoop(attr_dict, i, st) ==
    IF i > Len(attr_dict) \/ st.err # "" THEN st
    ELSE MetaLoop(attr_dict, i + 1, MetaStep(st, attr_dict[i].key, attr_dict[i].val))

\* The class attributes __table__, __fields__, __primary_key__, __default__
\* after ModelMeta.__init__ (has = FALSE: the attributes were not set), and
\* the error the class statement raised ("" for none).
NoMeta(err) == [has |-> FALSE, table |-> NoneName, fields |-> <<>>,
                primary_key |-> NoneName, default |-> {}, err |-> err]

ModelMetaInit(name, attr_dict) ==
    IF name = "Model" THEN NoMeta("")
    ELSE LET st == MetaLoop(attr_dict, 1, MetaStart) IN
         IF st.err # "" THEN NoMeta(st.err)
         ELSE [has |-> TRUE, table |-> name, fields |-> st.fields,
               primary_key |-> st.primary_key, default |-> st.default, err |-> ""]

KeyNames == <<"name", "id", "flag", "score">>
AttrVals ==
    {Field(c, pk, d) : c \in {"IntegerField", "StringField"}, pk \in BOOLEAN,
                       d \in {"None", "const", "count"}}
    \cup {Field("function", FALSE, "None")}
AttrDicts ==
    UNION {{[i \in 1..n |-> [key |-> KeyNames[i], val |-> vs[i]]] :
              vs \in [1..n -> AttrVals]} : n \in 0..MaxAttrs}
ClassNames == {"Model", "Widget"}

NoDecl == [name |-> "", attr_dict |-> <<>>, meta |-> NoMeta("")]

InitMeta == decl = NoDecl

\* class <name>(Model): <attr_dict>
Declare(name, attr_dict) ==
    /\ decl' = [name |-> name, attr_dict |-> attr_dict,
                meta |-> ModelMetaInit(name, attr_dict)]
    /\ UNCHANGED <<fieldVars, ormVars, engineVars>>

NextMeta == \E name \in ClassNames, attr_dict \in AttrDicts : Declare(name, attr_dict)

(***************************************************************************)
(* class Test and Model.__init__                                           *)
(***************************************************************************)
MaxId == 2        \* explicit ids 1..MaxId are passed to Test(...)
MaxCounter == 2   \* constructions stop drawing defaults once count(1) passed this
MaxKey == IF MaxId > MaxCounter THEN MaxId ELSE MaxCounter

Range(seq) == {seq[i] : i \in DOMAIN seq}

\* class Test(Model): name = StringField(); id = IntegerField(primary_key=True,
\* default=count(1))
TestAttrs == <<[key |-> "name", val |-> Field("StringField", FALSE, "None")],
               [key |-> "id",   val |-> Field("IntegerField", TRUE, "count")]>>
TestMeta == ModelMetaInit("Test", TestAttrs)
TestFieldClass(name) ==
    TestAttrs[CHOOSE i \in DOMAIN TestAttrs : TestAttrs[i].key = name].val.cls

NoAttrs == [f \in Range(TestMeta.fields) |-> Unset]
NoInst == [made |-> FALSE, d |-> NoAttrs]

\* Model.__init__(**kwargs) with the iterator of Test.id standing at ctr:
\* the attributes stored, the iterator afterwards, and the error raised.
ModelInit(kwargs, ctr) ==
    LET keys == DOMAIN kwargs
        declared == Range(TestMeta.fields)
        default_used == TestMeta.default \ keys
        given == declared \cap keys
        d1 == [f \in declared |-> IF f \in given THEN kwargs[f] ELSE Unset]
        d2 == [f \in declared |->
                 IF f \in default_used THEN PyVal("int", ctr) ELSE d1[f]]
        ctr2 == IF default_used = {} THEN ctr ELSE ctr + 1
    IN  IF \E a \in given : ~validate(TestFieldClass(a), kwargs[a])
        THEN [err |-> "TypeError", d |-> NoAttrs, counter |-> ctr]
        ELSE IF \E a \in default_used :
                   ~validate(TestFieldClass(a), PyVal("int", ctr))
        THEN [err |-> "TypeError", d |-> NoAttrs, counter |-> ctr2]
        ELSE IF keys \ declared # {}
        THEN [err |-> "AttributeError", d |-> NoAttrs, counter |-> ctr2]
        ELSE [err |-> "", d |-> d2, counter |-> ctr2]

\* What callers pass for each keyword: values of the field's type and of others.
KwVals(k) ==
    CASE k = "name" -> {PyVal("str", n) : n \in 1..MaxStr} \cup {PyVal("int", 1)}
      [] k = "id"   -> {PyVal("int", n) : n \in 1..MaxId}
                       \cup {PyVal("bool", 1), PyVal("str", 1)}
      [] OTHER      -> {PyVal("int", 1)}
KwNames == {"name", "id", "bogus"}
AllKwVals == UNION {KwVals(k) : k \in KwNames}
CtorKwargs ==
    {kw \in UNION {[D -> AllKwVals] : D \in SUBSET KwNames} :
        \A k \in DOMAIN kw : kw[k] \in KwVals(k)}

(***************************************************************************)
(* The MySQL side: the driver's parameter substitution and table `Test`.   *)
(* The table was created with the class's columns in declaration order and *)
(* `id` as its primary key.                                                *)
(***************************************************************************)
\* An identifier between backticks.  "`{}`".format(name) gives the name
\* itself; "`?`" with a str parameter gives the parameter's SQL literal, the
\* text between quotes, which is the name of no column.
FormatIdent(name) == [quoted |-> FALSE, text |-> name]
ParamIdent(name)  == [quoted |-> TRUE,  text |-> name]

DbColumns == TestMeta.fields
ResolveColumn(ident) ==
    IF ~ident.quoted /\ ident.text \in Range(DbColumns) THEN ident.text ELSE NoneName

\* The driver's literal for a parameter, as the server reads it back:
\* True/False are sent as 1/0, the rest as they are.
Escape(v) == IF v.t = "bool" THEN PyVal("int", v.v) ELSE v

\* The rows of a table in the order of column col, then of the primary key.
RowLess(a, b, col) ==
    \/ a[col].v < b[col].v
    \/ a[col].v = b[col].v /\ a["id"].v < b["id"].v
RECURSIVE SortRows(_, _)
SortRows(rows, col) ==
    IF rows = {} THEN <<>>
    ELSE LET first == CHOOSE r \in rows : \A o \in rows \ {r} : RowLess(r, o, col)
         IN  <<first>> \o SortRows(rows \ {first}, col)

\* SELECT * FROM `Test` [WHERE ..] [ORDER BY ..] [LIMIT ..] as the server runs
\* it: where is a sequence of [col, val], order a sequence of at most one
\* identifier, limit a sequence of at most two literals.
DbSelect(where, order, limit, tbl) ==
    IF \/ \E i \in DOMAIN where : ResolveColumn(where[i].col) = NoneName
       \/ \E i \in DOMAIN order : ResolveColumn(order[i]) = NoneName
    THEN [err |-> "OperationalError", rows |-> <<>>]
    ELSE IF \E i \in DOMAIN limit : limit[i].t # "int"
    THEN [err |-> "ProgrammingError", rows |-> <<>>]
    ELSE LET hit == {r \in tbl : \A i \in DOMAIN where :
                        r[ResolveColumn(where[i].col)] = where[i].val}
             all == SortRows(hit, IF order = <<>> THEN "id"
                                  ELSE ResolveColumn(order[1]))
             from == IF Len(limit) = 2 THEN limit[1].v + 1 ELSE 1
             upto == CASE Len(limit) = 0 -> Len(all)
                       [] Len(limit) = 1 -> limit[1].v
                       [] OTHER          -> limit[1].v + limit[2].v
         IN  [err |-> "", rows |-> SubSeq(all, from, IF upto > Len(all)
                                                     THEN Len(all) ELSE upto)]

\* INSERT INTO `Test` VALUES (..): the values go to the columns in order.
DbInsert(vals, tbl) ==
    LET row == [c \in Range(DbColumns) |->
                  vals[CHOOSE i \in DOMAIN DbColumns : DbColumns[i] = c]]
    IN  IF \E r \in tbl : r["id"] = row["id"]
        THEN [err |-> "IntegrityError", affected |-> 0, table |-> tbl]
        ELSE [err |-> "", affected |-> 1, table |-> tbl \cup {row}]

\* UPDATE `Test` SET c1=v1, .. WHERE w=x.  The affected-row count is the
\* number of rows the statement changed.
DbUpdate(set, vals, where, x, tbl) ==
    LET w == ResolveColumn(where)
        cols == {ResolveColumn(set[i]) : i \in DOMAIN set}
        New(r) == [c \in DOMAIN r |->
                     IF c \in cols
                     THEN vals[CHOOSE i \in DOMAIN set : ResolveColumn(set[i]) = c]
                     ELSE r[c]]
        hit == {r \in tbl : r[w] = x}
    IN  IF w = NoneName \/ NoneName \in cols
        THEN [err |-> "OperationalError", affected |-> 0, table |-> tbl]
        ELSE [err |-> "", affected |-> Cardinality({r \in hit : New(r) # r}),
              table |-> (tbl \ hit) \cup {New(r) : r \in hit}]

\* DELETE FROM `Test` WHERE w=x
DbDelete(where, x, tbl) ==
    LET w == ResolveColumn(where)
        hit == {r \in tbl : r[w] = x}
    IN  IF w = NoneName
        THEN [err |-> "OperationalError", affected |-> 0, table |-> tbl]
        ELSE [err |-> "", affected |-> Cardinality(hit), table |-> tbl \ hit]

(***************************************************************************)
(* Model.get, insert, update, delete and SpecOrm                           *)
(***************************************************************************)
MaxLimit == 1     \* integer limits 0..MaxLimit, pair counts 1..MaxLimit

\* A limit argument: None, an int n, a float, or a tuple or str of items.
Limit(t, n, items) == [t |-> t, n |-> n, items |-> items]
NoLimit == Limit("NoneType", 0, <<>>)
Limits ==
    {NoLimit, Limit("float", 1, <<>>)}
    \cup {Limit("int", n, <<>>) : n \in 0..MaxLimit}
    \cup {Limit("tuple", 0, <<PyVal("int", o), PyVal("int", c)>>) :
            o \in 0..1, c \in 1..MaxLimit}
    \cup {Limit("tuple", 0, <<>>),
          Limit("tuple", 0, <<PyVal("int", 1), PyVal("int", 1), PyVal("int", 1)>>)}
    \cup {Limit("str", 0, [i \in 1..n |-> PyVal("str", 1)]) : n \in 0..2}

\* bool(limit), isinstance(limit, int), isinstance(limit, Sequence)
Truthy(limit) ==
    CASE limit.t = "NoneType" -> FALSE
      [] limit.t \in {"int", "float"} -> limit.n # 0
      [] OTHER -> Len(limit.items) > 0
IsInt(limit) == limit.t = "int"
IsSequence(limit) == limit.t \in {"tuple", "str"}

\* The statement Model.get builds, after select() and the driver put the
\* parameters in: every `?` of "`?`=?" and of "order by `?`" is a parameter.
GetSql(filters, orderby, limit) ==
    LET where == [i \in DOMAIN filters |->
                    [col |-> ParamIdent(filters[i].key), val |-> Escape(filters[i].val)]]
        order == IF orderby # NoneName THEN <<ParamIdent(orderby)>> ELSE <<>>
    IN  IF ~Truthy(limit)
        THEN [err |-> "", where |-> where, order |-> order, limit |-> <<>>]
        ELSE IF IsInt(limit)
        THEN [err |-> "", where |-> where, order |-> order,
              limit |-> <<PyVal("int", limit.n)>>]
        ELSE IF IsSequence(limit) /\ Len(limit.items) = 2
        THEN [err |-> "", where |-> where, order |-> order,
              limit |-> [i \in 1..2 |-> Escape(limit.items[i])]]
        ELSE [err |-> "ValueError", where |-> <<>>, order |-> <<>>, limit |-> <<>>]

\* [cls(**each) for each in rs]
RECURSIVE MapRows(_, _, _)
MapRows(rs, ctr, acc) ==
    IF rs = <<>> THEN [err |-> "", rows |-> acc, counter |-> ctr]
    ELSE LET made == ModelInit(Head(rs), ctr) IN
         IF made.err # "" THEN [err |-> made.err, rows |-> <<>>, counter |-> made.counter]
         ELSE MapRows(Tail(rs), made.counter, Append(acc, made.d))

\* Model.get(**kwargs): the error raised ("" for none), the instances
\* returned, whether select() was reached, and Test.id's iterator afterwards.
ModelGet(filters, orderby, limit, tbl, ctr) ==
    LET sql == GetSql(filters, orderby, limit) IN
    IF sql.err # ""
    THEN [err |-> sql.err, rows |-> <<>>, queried |-> FALSE, counter |-> ctr]
    ELSE LET rs == DbSelect(sql.where, sql.order, sql.limit, tbl) IN
         IF rs.err # ""
         THEN [err |-> rs.err, rows |-> <<>>, queried |-> TRUE, counter |-> ctr]
         ELSE LET m == MapRows(rs.rows, ctr, <<>>) IN
              [err |-> m.err, rows |-> m.rows, queried |-> TRUE, counter |-> m.counter]

\* [getattr(self, name) for name in self.__fields__]
FieldArgs(d) == [i \in DOMAIN TestMeta.fields |-> d[TestMeta.fields[i]]]
HasUnset(d) == \E f \in DOMAIN d : d[f] = Unset
EscapeAll(args) == [i \in DOMAIN args |-> Escape(args[i])]

\* Model.insert / update / delete on an instance with attributes d: the
\* error raised, the affected-row count execute() returned, and the table
\* (execute() rolls back on an error, so the table is then as before).
ModelInsert(d, tbl) ==
    IF HasUnset(d) THEN [err |-> "AttributeError", affected |-> 0, table |-> tbl]
    ELSE DbInsert(EscapeAll(FieldArgs(d)), tbl)

ModelUpdate(d, tbl) ==
    IF HasUnset(d) THEN [err |-> "AttributeError", affected |-> 0, table |-> tbl]
    ELSE DbUpdate([i \in DOMAIN TestMeta.fields |-> FormatIdent(TestMeta.fields[i])],
                  EscapeAll(FieldArgs(d)), FormatIdent(TestMeta.primary_key),
                  Escape(d[TestMeta.primary_key]), tbl)

ModelDelete(d, tbl) ==
    IF d[TestMeta.primary_key] = Unset
    THEN [err |-> "AttributeError", affected |-> 0, table |-> tbl]
    ELSE DbDelete(FormatIdent(TestMeta.primary_key),
                  Escape(d[TestMeta.primary_key]), tbl)

GetFilters ==
    {<<>>} \cup {<<[key |-> "id", val |-> PyVal("int", k)]>> : k \in 1..MaxKey}
OrderBys == {NoneName, "id"}

NoWrite == [op |-> "", d |-> NoAttrs, err |-> "", affected |-> 0, kept |-> TRUE]
NoGet == [called |-> FALSE, filters |-> <<>>, orderby |-> NoneName,
          limit |-> NoLimit, err |-> "", rows |-> <<>>, queried |-> FALSE]

InitOrm ==
    /\ table = {}
    /\ counter = 1
    /\ inst = NoInst
    /\ issued = <<>>
    /\ lastWrite = NoWrite
    /\ lastGet = NoGet

\* a = Test(**kwargs); when it raises, a keeps what it held.
Construct(kwargs) ==
    LET r == ModelInit(kwargs, counter) IN
    /\ ~lastGet.called
    /\ "id" \in DOMAIN kwargs \/ counter <= MaxCounter
    /\ counter' = r.counter
    /\ inst' = IF r.err = "" THEN [made |-> TRUE, d |-> r.d] ELSE inst
    /\ issued' = IF r.err = "" /\ "id" \notin DOMAIN kwargs
                 THEN Append(issued, r.d["id"].v) ELSE issued
    /\ lastWrite' = NoWrite
    /\ lastGet' = NoGet
    /\ UNCHANGED <<table, fieldVars, metaVars, engineVars>>

\* a.<name> = value
Assign(name, value) ==
    /\ ~lastGet.called
    /\ inst.made
    /\ inst' = [inst EXCEPT !.d = FieldSet(inst.d, name, TestFieldClass(name), value).d]
    /\ lastWrite' = NoWrite
    /\ lastGet' = NoGet
    /\ UNCHANGED <<table, counter, issued, fieldVars, metaVars, engineVars>>

\* Rows with another primary key than the instance's are as they were.
OthersKept(d, before, after) ==
    {r \in before : r["id"] # Escape(d["id"])} = {r \in after : r["id"] # Escape(d["id"])}

Written(op, r) ==
    /\ ~lastGet.called
    /\ table' = r.table
    /\ lastWrite' = [op |-> op, d |-> inst.d, err |-> r.err, affected |-> r.affected,
                     kept |-> OthersKept(inst.d, table, r.table)]
    /\ lastGet' = NoGet
    /\ UNCHANGED <<counter, inst, issued, fieldVars, metaVars, engineVars>>

Insert == inst.made /\ Written("insert", ModelInsert(inst.d, table))
Update == inst.made /\ Written("update", ModelUpdate(inst.d, table))
Delete == inst.made /\ Written("delete", ModelDelete(inst.d, table))

\* res = Test.get(**filters, orderby=.., limit=..)
Get(filters, orderby, limit) ==
    LET r == ModelGet(filters, orderby, limit, table, counter) IN
    /\ ~lastGet.called
    /\ lastGet' = [called |-> TRUE, filters |-> filters, orderby |-> orderby,
                   limit |-> limit, err |-> r.err, rows |-> r.rows,
                   queried |-> r.queried]
    /\ counter' = r.counter
    /\ UNCHANGED <<table, inst, issued, lastWrite, fieldVars, metaVars, engineVars>>

\* print([(x.id, x.name) for x in res]): the caller is done with the result
\* (or with the error) of its get before it goes on.
PrintRes ==
    /\ lastGet.called
    /\ lastGet' = NoGet
    /\ UNCHANGED <<table, counter, inst, issued, lastWrite, fieldVars, metaVars,
                   engineVars>>

NextOrm ==
    \/ \E kwargs \in CtorKwargs : Construct(kwargs)
    \/ \E name \in Range(TestMeta.fields) : \E value \in KwVals(name) : Assign(name, value)
    \/ Insert
    \/ Update
    \/ Delete
    \/ \E filters \in GetFilters, orderby \in OrderBys, limit \in Limits :
          Get(filters, orderby, limit)
    \/ PrintRes

(***************************************************************************)
(* create_pool, select, execute and SpecEngine.  Every await of select and *)
(* execute is a step of its own, and at every await the awaited call may   *)
(* raise or the caller may be cancelled there.                             *)
(***************************************************************************)
NCallers == 2     \* concurrent callers of select/execute
MaxPools == 2     \* create_pool is called at most MaxPools times
MaxSize == 1      \* the maxsize the pools are created with

Callers == 1..NCallers
Pools == 1..MaxPools

\* What an awaited driver call raises; what conn.rollback() raises.
Errors == {"OperationalError", "CancelledError"}
RollbackErrors == {"InterfaceError"}

\* A caller's call: op is "select" or "execute"; pool and conn are the pool
\* the call uses and the connection it holds (0: none), held while pc is
\* inside the async with block; acquired tells that the call got a
\* connection; err is the first error raised inside the call and raised the
\* one that reached the caller; rolled tells that rollback() completed on
\* the connection; commits counts the commits that completed; affected is
\* cur.rowcount and ret the value returned.
NoCall == [pc |-> "idle", op |-> "", pool |-> 0, conn |-> 0, acquired |-> FALSE,
           err |-> "", raised |-> "", rolled |-> FALSE, commits |-> 0,
           affected |-> 0, ret |-> 0]

\* The positions inside the async with block.
Holding == {"cursor", "exec", "fetch", "close", "commit", "rollback"}

PoolState ==
    IF pool = 0 THEN "uninitialized"
    ELSE IF pool \in closing THEN "closed" ELSE "open"

InitEngine ==
    /\ pool = 0
    /\ closing = {}
    /\ free = [g \in Pools |-> {}]
    /\ used = [g \in Pools |-> {}]
    /\ call = [p \in Callers |-> NoCall]

InitAll == InitField /\ InitMeta /\ InitOrm /\ InitEngine

OthersIdle == UNCHANGED <<fieldVars, metaVars, ormVars>>

\* __pool = await aiomysql.create_pool(maxsize=MaxSize, ...): the global is
\* bound to a new pool, whatever it held.
create_pool ==
    /\ pool < MaxPools
    /\ pool' = pool + 1
    /\ UNCHANGED <<closing, free, used, call>>
    /\ OthersIdle

\* The owner of the pool closes it (the pool's close()): its idle
\* connections are closed, the ones in use are closed when released.
ClosePool ==
    /\ pool # 0
    /\ pool \notin closing
    /\ closing' = closing \cup {pool}
    /\ free' = [free EXCEPT ![pool] = {}]
    /\ UNCHANGED <<pool, used, call>>
    /\ OthersIdle

\* The same with a release that only the normal end of the block reaches.
WithExitOnReturn(kind) == kind = "return"

\* `async with __pool.acquire() as conn`: the block's exit releases the
\* connection when the block is left by a return and when it is left by an
\* exception.
WithExit(kind) == kind \in {"return", "raise"}

\* Leaving the async with block: the call of caller p ends as c, and its
\* connection goes back to its pool (closed instead when the pool is closing).
Leave(p, kind, c) ==
    LET g == call[p].pool
        k == call[p].conn
    IN  /\ call' = [call EXCEPT ![p] = [c EXCEPT !.pool = 0, !.conn = 0]]
        /\ IF WithExit(kind)
           THEN /\ used' = [used EXCEPT ![g] = @ \ {k}]
                /\ free' = IF g \in closing THEN free
                           ELSE [free EXCEPT ![g] = @ \cup {k}]
           ELSE UNCHANGED <<used, free>>
        /\ UNCHANGED <<pool, closing>>
        /\ OthersIdle

Returned(p, c) == Leave(p, "return", [c EXCEPT !.pc = "returned"])
Raised(p, e, c) == Leave(p, "raise", [c EXCEPT !.pc = "raised", !.raised = e])

\* select(...) or execute(...) is called: `__pool.acquire()` is evaluated.
\* An unbound __pool is a NameError, a closed pool refuses to acquire.
Call(p, op) ==
    /\ call[p].pc = "idle"
    /\ call' = [call EXCEPT ![p] =
          CASE PoolState = "uninitialized" ->
                 [NoCall EXCEPT !.pc = "raised", !.op = op,
                                !.err = "NameError", !.raised = "NameError"]
            [] PoolState = "closed" ->
                 [NoCall EXCEPT !.pc = "raised", !.op = op,
                                !.err = "RuntimeError", !.raised = "RuntimeError"]
            [] OTHER ->
                 [NoCall EXCEPT !.pc = "acquire", !.op = op, !.pool = pool]]
    /\ UNCHANGED <<pool, closing, free, used>>
    /\ OthersIdle

\* The pool hands out an idle connection, or opens one while fewer than
\* maxsize exist; otherwise the caller stays suspended.
Acquire(p) ==
    LET g == call[p].pool
        fresh == (1..MaxSize) \ (free[g] \cup used[g])
        k == IF free[g] # {} THEN CHOOSE x \in free[g] : \A y \in free[g] : x <= y
             ELSE CHOOSE x \in fresh : \A y \in fresh : x <= y
    IN  /\ call[p].pc = "acquire"
        /\ free[g] # {} \/ fresh # {}
        /\ free' = [free EXCEPT ![g] = @ \ {k}]
        /\ used' = [used EXCEPT ![g] = @ \cup {k}]
        /\ call' = [call EXCEPT ![p].pc = "cursor", ![p].conn = k,
                                 ![p].acquired = TRUE]
        /\ UNCHANGED <<pool, closing>>
        /\ OthersIdle

\* The acquisition fails or the caller is cancelled while waiting for it.
AcquireFail(p, e) ==
    /\ call[p].pc = "acquire"
    /\ call' = [call EXCEPT ![p].pc = "raised", ![p].pool = 0,
                             ![p].err = e, ![p].raised = e]
    /\ UNCHANGED <<pool, closing, free, used>>
    /\ OthersIdle

\* An await inside the block completes.
Step(p, c) ==
    /\ call' = [call EXCEPT ![p] = c]
    /\ UNCHANGED <<pool, closing, free, used>>
    /\ OthersIdle

\* cur = await conn.cursor(aiomysql.DictCursor)
Cursor(p) ==
    /\ call[p].pc = "cursor"
    /\ Step(p, [call[p] EXCEPT !.pc = "exec"])

\* await cur.execute(...); execute() then reads cur.rowcount.
Exec(p, n) ==
    /\ call[p].pc = "exec"
    /\ IF call[p].op = "select"
       THEN n = 0 /\ Step(p, [call[p] EXCEPT !.pc = "fetch"])
       ELSE Step(p, [call[p] EXCEPT !.pc = "commit", !.affected = n])

\* rs = await cur.fetchmany(size) / cur.fetchall()
Fetch(p) ==
    /\ call[p].pc = "fetch"
    /\ Step(p, [call[p] EXCEPT !.pc = "close"])

\* await cur.close(); return rs
CloseCur(p) ==
    /\ call[p].pc = "close"
    /\ Returned(p, call[p])

\* await conn.commit(); return affected
Commit(p) ==
    /\ call[p].pc = "commit"
    /\ Returned(p, [call[p] EXCEPT !.commits = @ + 1, !.ret = call[p].affected])

\* An awaited call raises e.  select() has no handler; in execute() the
\* try block begins after the cursor was made.
Fail(p, e) ==
    /\ call[p].pc \in {"cursor", "exec", "fetch", "close", "commit"}
    /\ IF call[p].op = "execute" /\ call[p].pc \in {"exec", "commit"}
       THEN Step(p, [call[p] EXCEPT !.pc = "rollback", !.err = e, !.affected = 0])
       ELSE Raised(p, e, [call[p] EXCEPT !.err = e])

\* except BaseException: await conn.rollback(); raise
Rollback(p) ==
    /\ call[p].pc = "rollback"
    /\ Raised(p, call[p].err, [call[p] EXCEPT !.rolled = TRUE])

\* conn.rollback() itself raises e: that is the error the caller gets.
RollbackFail(p, e) ==
    /\ call[p].pc = "rollback"
    /\ Raised(p, e, call[p])

\* The caller has its result and may call again.
Done(p) ==
    /\ call[p].pc \in {"returned", "raised"}
    /\ Step(p, NoCall)

CallerStep ==
    \E p \in Callers :
         \/ \E op \in {"select", "execute"} : Call(p, op)
         \/ Acquire(p)
         \/ \E e \in Errors : AcquireFail(p, e)
         \/ Cursor(p)
         \/ \E n \in 0..1 : Exec(p, n)
         \/ Fetch(p)
         \/ CloseCur(p)
         \/ Commit(p)
         \/ \E e \in Errors : Fail(p, e)
         \/ Rollback(p)
         \/ \E e \in RollbackErrors : RollbackFail(p, e)
         \/ Done(p)

\* The pool is created once, as unit_test does, and may be closed.
OpenPool == pool = 0 /\ create_pool

NextEngine == OpenPool \/ ClosePool \/ CallerStep

\* create_pool may be called again at any time.
NextPool == create_pool \/ ClosePool \/ CallerStep

SpecField  == InitAll /\ [][NextField]_vars
SpecMeta   == InitAll /\ [][NextMeta]_vars
SpecOrm    == InitAll /\ [][NextOrm]_vars
SpecEngine == InitAll /\ [][NextEngine]_vars
SpecPool   == InitAll /\ [][NextPool]_vars

(***************************************************************************)
(* The claims                                                              *)
(***************************************************************************)
\* C1: an execute() that fails after it acquired its connection has rolled
\* back on that connection, committed nothing and hands the caller the
\* first error; an execute() that returns has committed exactly once and
\* returns the statement's affected-row count.
C1_ExecuteRollsBackOrCommits ==
    \A p \in Callers :
      LET c == call[p] IN
      c.op = "execute" =>
        /\ (c.pc = "raised" /\ c.acquired) =>
              (c.rolled /\ c.commits = 0 /\ c.raised = c.err)
        /\ c.pc = "returned" => (c.commits = 1 /\ c.ret = c.affected)

\* C2: the checked-out connections of every pool are exactly the ones held
\* by the calls that are inside their async with block, one each; so when
\* no call is inside its block, however the calls ended, no connection is
\* checked out.
HeldBy(g) == {p \in Callers : call[p].pool = g /\ call[p].pc \in Holding}
C2_ConnectionsReleased ==
    /\ \A g \in Pools :
          /\ used[g] = {call[p].conn : p \in HeldBy(g)}
          /\ Cardinality(used[g]) = Cardinality(HeldBy(g))
          /\ used[g] \cap free[g] = {}
    /\ (\A p \in Callers : call[p].pc \notin Holding) =>
          \A g \in Pools : used[g] = {}

\* One call ended by a failed rollback, another by a cancellation inside
\* select's block, and no call holds a connection.
C2_Witness ==
    /\ \E p \in Callers : /\ call[p].pc = "raised" /\ call[p].acquired
                           /\ call[p].raised = "InterfaceError"
    /\ \E p \in Callers : /\ call[p].pc = "raised" /\ call[p].acquired
                           /\ call[p].op = "select"
                           /\ call[p].raised = "CancelledError"
    /\ \A p \in Callers : call[p].pc \notin Holding
    /\ \A g \in Pools : used[g] = {}

\* C3: after an insert() that affected one row, get(<primary key>=X) with X
\* the instance's key returns exactly one instance, equal field by field to
\* the inserted one.
PyEq(a, b) == Escape(a) = Escape(b)       \* Python's ==: True == 1
IsKeyFilter(filters, d) ==
    /\ Len(filters) = 1
    /\ filters[1].key = TestMeta.primary_key
    /\ PyEq(filters[1].val, d[TestMeta.primary_key])
PlainGet == lastGet.called /\ lastGet.orderby = NoneName /\ lastGet.limit = NoLimit
C3_RoundTrip ==
    ( /\ lastWrite.op = "insert" /\ lastWrite.err = "" /\ lastWrite.affected = 1
      /\ PlainGet /\ IsKeyFilter(lastGet.filters, lastWrite.d) )
    => /\ lastGet.err = ""
       /\ Len(lastGet.rows) = 1
       /\ \A f \in Range(TestMeta.fields) : PyEq(lastGet.rows[1][f], lastWrite.d[f])

\* C4: after an update() that succeeded a following get() returns the row
\* with the instance's values; after a delete() that succeeded a following
\* get() on the primary key returns the empty sequence; update() and
\* delete() leave the rows with other primary keys as they were.
C4_UpdateDeleteVisible ==
    /\ ( /\ lastWrite.op = "update" /\ lastWrite.err = "" /\ lastWrite.affected >= 1
         /\ PlainGet
         /\ lastGet.filters = <<>> \/ IsKeyFilter(lastGet.filters, lastWrite.d) )
       => /\ lastGet.err = ""
          /\ \E i \in DOMAIN lastGet.rows :
                \A f \in Range(TestMeta.fields) : PyEq(lastGet.rows[i][f], lastWrite.d[f])
    /\ ( /\ lastWrite.op = "delete" /\ lastWrite.err = "" /\ lastWrite.affected >= 1
         /\ PlainGet /\ IsKeyFilter(lastGet.filters, lastWrite.d) )
       => (lastGet.err = "" /\ lastGet.rows = <<>>)
    /\ lastWrite.op \in {"update", "delete"} => lastWrite.kept

\* C5: an assignment stores the value exactly when its type is in the
\* field's family (Integer: integral; Rational: integral or floating;
\* String: str; Boolean: bool); otherwise it raises and the field reads as
\* before.
InFamily(fieldClass, value) ==
    CASE fieldClass = "IntegerField" -> value.t \in {"int", "bool"}
      [] fieldClass = "FloatField"   -> value.t \in {"int", "bool", "float", "Fraction"}
      [] fieldClass = "StringField"  -> value.t = "str"
      [] fieldClass = "BooleanField" -> value.t = "bool"
C5_AssignmentValidated ==
    lastSet.name # "" =>
      IF InFamily(HolderFields[lastSet.name], lastSet.value)
      THEN lastSet.err = "" /\ holder[lastSet.name] = lastSet.value
      ELSE lastSet.err = "TypeError" /\ holder[lastSet.name] = lastSet.before

\* C6: a class whose registration completed has exactly one primary-key
\* field, the one recorded as its primary key; a declaration with two or
\* more primary-key fields raises and registers nothing.
KeyFields(attr_dict) ==
    {i \in DOMAIN attr_dict : IsField(attr_dict[i].val) /\ attr_dict[i].val.primary_key}
C6_ExactlyOnePrimaryKey ==
    /\ decl.meta.has =>
          /\ Cardinality(KeyFields(decl.attr_dict)) = 1
          /\ \A i \in KeyFields(decl.attr_dict) :
                decl.meta.primary_key = decl.attr_dict[i].key
    /\ Cardinality(KeyFields(decl.attr_dict)) >= 2 =>
          decl.meta = NoMeta("RuntimeError")

\* C7: the pool only moves uninitialized -> open -> closed; a select or
\* execute called while it is not open fails at once and touches no
\* connection, and a call goes on to a connection only from an open pool.
C7_PoolLifecycle ==
    [][ /\ PoolState = "uninitialized" => PoolState' \in {"uninitialized", "open"}
        /\ PoolState = "open" => PoolState' \in {"open", "closed"}
        /\ PoolState = "closed" => PoolState' = "closed"
        /\ \A p \in Callers :
              (call[p].pc = "idle" /\ call'[p].pc # "idle") =>
                IF PoolState = "open"
                THEN call'[p].pc = "acquire"
                ELSE /\ call'[p].pc = "raised" /\ ~call'[p].acquired
                     /\ used' = used /\ free' = free ]_vars

\* C8: the k-th instance constructed without id received the default k: no
\* default is handed out twice and none is skipped.
C8_SequentialDefaults == \A k \in DOMAIN issued : issued[k] = k

\* C9: get with an integer limit n >= 0 returns at most n rows; with a pair
\* (offset, count) it returns the at most count rows from row offset on;
\* with a limit that is neither it raises before any query is made.
Unlimited ==
    ModelGet(lastGet.filters, lastGet.orderby, NoLimit, table, counter).rows
IsPair(limit) == limit.t = "tuple" /\ Len(limit.items) = 2
IsNeither(limit) ==
    \/ limit.t = "float"
    \/ limit.t = "tuple" /\ Len(limit.items) # 2
    \/ limit.t = "str" /\ Len(limit.items) # 2
C9_Limit ==
    lastGet.called =>
      /\ (IsInt(lastGet.limit) /\ lastGet.err = "") =>
            Len(lastGet.rows) <= lastGet.limit.n
      /\ (IsPair(lastGet.limit) /\ lastGet.err = "") =>
            /\ Len(lastGet.rows) <= lastGet.limit.items[2].v
            /\ lastGet.rows = SubSeq(Unlimited, lastGet.limit.items[1].v + 1,
                                      lastGet.limit.items[1].v + Len(lastGet.rows))
      /\ IsNeither(lastGet.limit) =>
            (lastGet.err = "ValueError" /\ ~lastGet.queried)

\* C10: every constructed instance holds a value of the field's type for
\* each declared field, the primary key included.
C10_InstanceComplete ==
    inst.made =>
      \A f \in Range(TestMeta.fields) :
        inst.d[f] # Unset /\ validate(TestFieldClass(f), inst.d[f])
====
